---- MODULE Spec2Model ----
(***************************************************************************)
(* Model of the health-insurance premium predictor (src/app/helper.py).   *)
(*                                                                         *)
(* Python strings are modelled as sequences of atoms: an atom is a word   *)
(* that holds no separator character and no outer blank, or one of the    *)
(* single characters " ", "&" and ",".  strip, lower, replace and split   *)
(* are computed on these sequences as Python computes them on characters. *)
(*                                                                         *)
(* Python floats are modelled exactly as integers counting 1/Den, and the *)
(* raw score of a model as an integer counting 1/ScoreDen.                *)
(***************************************************************************)
EXTENDS Integers, Sequences, FiniteSets, TLC

VARIABLES
    pc,            \* "start" before the module body of helper.py ran, "loaded" after
    files,         \* the artifacts directory: file name -> content
    model_young,   \* helper.py globals
    model_rest,
    scaler_young,
    scaler_rest,
    op,            \* the last operation that ran
    input,         \* its argument
    df,            \* the frame the last preprocess_input built (NoFrame when none)
    invoked,       \* the model the last predict invoked: "none", "young" or "rest"
    raw,           \* the score that model returned, counted in 1/ScoreDen
    scalerBand,    \* the band whose scaler the last preprocess_input selected
    scaledCols,    \* the columns the last preprocess_input transformed
    result,        \* the outcome of the last operation
    first          \* the input and outcome of the first predict call, and whether
                   \* a call with another input followed it

vars == <<pc, files, model_young, model_rest, scaler_young, scaler_rest,
          op, input, df, invoked, raw, scalerBand, scaledCols, result, first>>

artifacts == <<model_young, model_rest, scaler_young, scaler_rest>>

(***************************************************************************)
(* Bounds of the model.                                                    *)
(***************************************************************************)
MaxLen == 5          \* atoms in a medical-history string
AgeSpan == 2         \* ages checked on each side of the band boundary

(***************************************************************************)
(* Numbers.                                                                *)
(***************************************************************************)
max_score == 14
AgeMin == 18
AgeMax == 100
\* One unit of a float: 1/Den.  Den is a multiple of max_score and of the
\* divisors of the transforms below, so every value is exact.
Den == max_score * (AgeMax - AgeMin)
\* One unit of a raw model score: 1/ScoreDen.
ScoreDen == 4

Min(a, b) == IF a <= b THEN a ELSE b
Max(a, b) == IF a >= b THEN a ELSE b

\* float(n) and int(x): int truncates toward zero.
ToFloat(n) == n * Den
PyInt(x) == IF x >= 0 THEN x \div Den ELSE -((-x) \div Den)

(***************************************************************************)
(* Values an input field can hold.                                         *)
(***************************************************************************)
Str(s) == [t |-> "str", s |-> s, n |-> 0]
Num(n) == [t |-> "num", s |-> <<>>, n |-> n]
PyNone == [t |-> "none", s |-> <<>>, n |-> 0]
Missing == [t |-> "missing", s |-> <<>>, n |-> 0]

\* str.lower() on one atom.
LowerAtom(a) ==
    CASE a = "Diabetes" -> "diabetes"
      [] a = "Heart disease" -> "heart disease"
      [] a = "High blood pressure" -> "high blood pressure"
      [] a = "Thyroid" -> "thyroid"
      [] a = "No Disease" -> "no disease"
      [] a = "None" -> "none"
      [] a = "Foo" -> "foo"
      [] a = "Male" -> "male"
      [] a = "MALE" -> "male"
      [] a = "Female" -> "female"
      [] OTHER -> a

lower(s) == [i \in 1..Len(s) |-> LowerAtom(s[i])]

RECURSIVE lstrip(_)
lstrip(s) == IF s # <<>> /\ Head(s) = " " THEN lstrip(Tail(s)) ELSE s

RECURSIVE rstrip(_)
rstrip(s) ==
    IF s # <<>> /\ s[Len(s)] = " " THEN rstrip(SubSeq(s, 1, Len(s) - 1)) ELSE s

strip(s) == rstrip(lstrip(s))

\* str(x) for a value that dict.get returned.
PyStr(v) ==
    CASE v.t = "str" -> v.s
      [] v.t = "none" -> <<"None">>
      [] OTHER -> <<"0">>

(***************************************************************************)
(* calculate_normalized_risk                                               *)
(***************************************************************************)
Separator == <<" ", "&", " ">>

_RISK_SCORES(token) ==
    CASE token = <<"diabetes">> -> 6
      [] token = <<"heart disease">> -> 8
      [] token = <<"high blood pressure">> -> 6
      [] token = <<"thyroid">> -> 5
      [] token = <<"no disease">> -> 0
      [] token = <<"none">> -> 0
      [] OTHER -> 0

\* s.replace(",", " & ")
RECURSIVE ReplaceComma(_)
ReplaceComma(s) ==
    IF s = <<>> THEN <<>>
    ELSE (IF Head(s) = "," THEN Separator ELSE <<Head(s)>>) \o ReplaceComma(Tail(s))

MatchAt(s, i, pat) ==
    /\ i + Len(pat) - 1 <= Len(s)
    /\ SubSeq(s, i, i + Len(pat) - 1) = pat

\* s.split(" & "): the occurrences are taken left to right and do not overlap.
RECURSIVE SplitOn(_, _)
SplitOn(s, sep) ==
    LET hits == {i \in 1..Len(s) : MatchAt(s, i, sep)}
    IN  IF hits = {} THEN <<s>>
        ELSE LET i == CHOOSE j \in hits : \A k \in hits : j <= k
             IN  <<SubSeq(s, 1, i - 1)>>
                     \o SplitOn(SubSeq(s, i + Len(sep), Len(s)), sep)

RECURSIVE SumScores(_)
SumScores(parts) ==
    IF parts = <<>> THEN 0
    ELSE _RISK_SCORES(Head(parts)) + SumScores(Tail(parts))

HistoryParts(s) ==
    LET pieces == SplitOn(ReplaceComma(s), Separator)
    IN  [i \in 1..Len(pieces) |-> lower(strip(pieces[i]))]

calculate_normalized_risk(medical_history) ==
    IF medical_history.t # "str" \/ strip(medical_history.s) = <<>>
    THEN 0
    ELSE LET total == SumScores(HistoryParts(medical_history.s))
             normalized == IF max_score > 0 THEN (ToFloat(total)) \div max_score ELSE 0
         IN  Min(Max(normalized, 0), ToFloat(1))

(***************************************************************************)
(* The feature frame.                                                      *)
(***************************************************************************)
_EXPECTED_COLUMNS ==
    << "age", "number_of_dependants", "income_lakhs", "insurance_plan",
       "genetical_risk", "normalized_risk_score", "gender_Male",
       "region_Northwest", "region_Southeast", "region_Southwest",
       "marital_status_Unmarried", "bmi_category_Obesity",
       "bmi_category_Overweight", "bmi_category_Underweight",
       "smoking_status_Occasional", "smoking_status_Regular",
       "employment_status_Salaried", "employment_status_Self-Employed" >>

Range(s) == {s[i] : i \in 1..Len(s)}

_INSURANCE_ENCODING(plan) ==
    CASE plan = Str(<<"Bronze">>) -> 1
      [] plan = Str(<<"Silver">>) -> 2
      [] plan = Str(<<"Gold">>) -> 3
      [] OTHER -> 1

\* A frame: the column names in order, and the value of each column's one row.
NoFrame == [cols |-> <<>>, vals |-> <<>>]
Frame(cols, vals) == [cols |-> cols, vals |-> vals]

\* An input: dict tells a dict from any other object, f holds the dict's items
\* (an absent key holds Missing).
Keys ==
    { "Age", "Number of Dependants", "Income in Lakhs", "Genetical Risk",
      "Insurance Plan", "Employment Status", "Gender", "Marital Status",
      "BMI Category", "Smoking Status", "Region", "Medical History" }

\* input_dict.get(key, default)
Get(input_dict, key, default) ==
    IF input_dict.f[key].t = "missing" THEN default ELSE input_dict.f[key]

\* int(x) and float(x) accept a number; text that spells no number, and None, raise.
Coercible(v) == v.t = "num"

\* A one-hot flag as a frame value.
Flag(b) == IF b THEN ToFloat(1) ELSE 0

\* IsMale without the lower(): an exact match on "Male".
IsMaleExact(gender) == gender.s = <<"Male">>

\* Line 140: input_dict.get("Gender", "").lower() == "male"
IsMale(gender) == lower(gender.s) = <<"male">>

\* Lines 143-168: str(input_dict.get(key, "")).strip()
Category(input_dict, key) == strip(PyStr(Get(input_dict, key, Str(<<>>))))

\* Lines 126-177 of preprocess_input: the frame before scaling.
Encode(input_dict) ==
    LET age == Get(input_dict, "Age", Num(0))
        dependants == Get(input_dict, "Number of Dependants", Num(0))
        income == Get(input_dict, "Income in Lakhs", Num(0))
        genetical == Get(input_dict, "Genetical Risk", Num(0))
        plan == Get(input_dict, "Insurance Plan", Str(<<"Bronze">>))
        gender == Get(input_dict, "Gender", Str(<<>>))
        region == Category(input_dict, "Region")
        marital == Category(input_dict, "Marital Status")
        bmi == Category(input_dict, "BMI Category")
        smoking == Category(input_dict, "Smoking Status")
        employment == Category(input_dict, "Employment Status")
        history == Str(PyStr(Get(input_dict, "Medical History", Str(<<>>))))
    IN  [c \in Range(_EXPECTED_COLUMNS) |->
            CASE c = "age" -> ToFloat(age.n)
              [] c = "number_of_dependants" -> ToFloat(dependants.n)
              [] c = "income_lakhs" -> ToFloat(income.n)
              [] c = "genetical_risk" -> ToFloat(genetical.n)
              [] c = "insurance_plan" -> ToFloat(_INSURANCE_ENCODING(plan))
              [] c = "normalized_risk_score" -> calculate_normalized_risk(history)
              [] c = "gender_Male" -> Flag(IsMale(gender))
              [] c = "region_Northwest" -> Flag(region = <<"Northwest">>)
              [] c = "region_Southeast" -> Flag(region = <<"Southeast">>)
              [] c = "region_Southwest" -> Flag(region = <<"Southwest">>)
              [] c = "marital_status_Unmarried" -> Flag(marital = <<"Unmarried">>)
              [] c = "bmi_category_Obesity" -> Flag(bmi = <<"Obesity">>)
              [] c = "bmi_category_Overweight" -> Flag(bmi = <<"Overweight">>)
              [] c = "bmi_category_Underweight" -> Flag(bmi = <<"Underweight">>)
              [] c = "smoking_status_Occasional" -> Flag(smoking = <<"Occasional">>)
              [] c = "smoking_status_Regular" -> Flag(smoking = <<"Regular">>)
              [] c = "employment_status_Salaried" -> Flag(employment = <<"Salaried">>)
              [] c = "employment_status_Self-Employed" ->
                     Flag(employment = <<"Self-Employed">>)]

\* The exception lines 123-177 raise, "" when they raise none.  The checks run in
\* the order of the statements.
EncodeError(input_dict) ==
    CASE ~input_dict.dict -> "InvalidInput"
      [] ~Coercible(Get(input_dict, "Age", Num(0))) -> "InvalidInput"
      [] ~Coercible(Get(input_dict, "Number of Dependants", Num(0))) -> "InvalidInput"
      [] ~Coercible(Get(input_dict, "Income in Lakhs", Num(0))) -> "InvalidInput"
      [] ~Coercible(Get(input_dict, "Genetical Risk", Num(0))) -> "InvalidInput"
      [] Get(input_dict, "Gender", Str(<<>>)).t # "str" -> "AttributeError"
      [] OTHER -> ""

(***************************************************************************)
(* Scalers.                                                                *)
(***************************************************************************)
\* A fitted transform: x -> (x - sub) / div, column by column.
Transform(tf, x) == (x - ToFloat(tf.sub)) \div tf.div

NoTransform == [sub |-> 0, div |-> 1]
None == [t |-> "none", keys |-> FALSE, cols |-> <<>>, tf |-> NoTransform, bias |-> 0]
BareScaler(tf) ==
    [t |-> "scaler", keys |-> FALSE, cols |-> <<>>, tf |-> tf, bias |-> 0]
ScalerDict(keys, cols, tf) ==
    [t |-> "dict", keys |-> keys, cols |-> cols, tf |-> tf, bias |-> 0]
Model(bias) ==
    [t |-> "model", keys |-> FALSE, cols |-> <<>>, tf |-> NoTransform, bias |-> bias]

\* _ensure_scaler_format: [err, obj]; obj is None or a dict with both keys.
_ensure_scaler_format(scaler_obj) ==
    IF scaler_obj.t = "none" THEN [err |-> "", obj |-> None]
    ELSE IF scaler_obj.t = "dict"
    THEN IF scaler_obj.keys
         THEN [err |-> "", obj |-> scaler_obj]
         ELSE [err |-> "BadScalerDict", obj |-> None]
    ELSE [err |-> "",
          obj |-> ScalerDict(TRUE, <<"age", "income_lakhs">>, scaler_obj.tf)]

\* Line 181: the band whose scaler preprocess_input takes.
ScalerBand(age) == IF age <= 25 THEN "young" ELSE "rest"

\* SelectedScaler that keeps the scaler of the call before, when there was one.
SelectedScalerSticky(age) ==
    IF scalerBand = "young" THEN scaler_young
    ELSE IF scalerBand = "rest" THEN scaler_rest
    ELSE IF ScalerBand(age) = "young" THEN scaler_young ELSE scaler_rest

SelectedScaler(age) ==
    IF ScalerBand(age) = "young" THEN scaler_young ELSE scaler_rest

\* MissingCols that reports nothing: the test of lines 190-195 dropped.
MissingColsIgnored(cols, frame) == {}

\* Line 190: the named columns the frame lacks.
MissingCols(cols, frame) == {c \in Range(cols) : c \notin Range(frame.cols)}

\* ApplyScaler that transforms the whole frame: df[:] = scaler.transform(df)
ApplyScalerAll(frame, cols, tf) ==
    Frame(frame.cols, [c \in DOMAIN frame.vals |-> Transform(tf, frame.vals[c])])

\* Line 197: df[cols] = scaler.transform(df[cols])
ApplyScaler(frame, cols, tf) ==
    Frame(frame.cols,
          [c \in DOMAIN frame.vals |->
              IF c \in Range(cols) THEN Transform(tf, frame.vals[c])
              ELSE frame.vals[c]])

Outcome(err, frame, band, scaled) ==
    [err |-> err, df |-> frame, band |-> band, scaled |-> scaled]

\* Lines 186-199, given what _ensure_scaler_format returned or raised.
ScaleWith(frame, band, fmt) ==
    IF fmt.err # "" THEN Outcome(fmt.err, NoFrame, band, {})
    ELSE IF fmt.obj.t = "none" THEN Outcome("", frame, band, {})
    ELSE IF MissingCols(fmt.obj.cols, frame) # {}
    THEN Outcome("SchemaMismatch", NoFrame, band, {})
    ELSE Outcome("", ApplyScaler(frame, fmt.obj.cols, fmt.obj.tf), band,
                 Range(fmt.obj.cols))

\* Lines 180-184: age = int(df.at[0, "age"]) selects the scaler.
ScaleByAge(frame, age) ==
    ScaleWith(frame, ScalerBand(age), _ensure_scaler_format(SelectedScaler(age)))

\* Lines 179-199.
Scale(frame) == ScaleByAge(frame, PyInt(frame.vals["age"]))

\* preprocess_input: err is "" and df the frame on a normal return.
preprocess_input(input_dict) ==
    IF EncodeError(input_dict) # ""
    THEN Outcome(EncodeError(input_dict), NoFrame, "none", {})
    ELSE Scale(Frame(_EXPECTED_COLUMNS, Encode(input_dict)))

(***************************************************************************)
(* predict                                                                 *)
(***************************************************************************)
RECURSIVE SumInts(_, _)
SumInts(cols, vals) ==
    IF cols = <<>> THEN 0 ELSE PyInt(vals[Head(cols)]) + SumInts(Tail(cols), vals)

\* model.predict(df)[0]: the regressor is a collaborator; any function of the
\* frame will do, and this one is the model's bias plus a quarter for each whole
\* unit of each feature.
ModelPredict(m, frame) == m.bias + SumInts(frame.cols, frame.vals)

\* PyRound with a tie rounded up.
PyRoundHalfUp(val) == (2 * val + ScoreDen) \div (2 * ScoreDen)

\* round(val) on a float: to the nearest integer, a tie to the even one.
PyRound(val) ==
    LET fl == val \div ScoreDen
        r == val % ScoreDen
    IN  IF 2 * r < ScoreDen THEN fl
        ELSE IF 2 * r > ScoreDen THEN fl + 1
        ELSE IF fl % 2 = 0 THEN fl ELSE fl + 1

\* PostProcess without the clip to zero.
PostProcessNoClip(val) == PyRound(val)

\* Lines 218-220.
PostProcess(val) == Max(0, PyRound(val))

\* Line 213: the band whose model predict takes.
ModelBand(frame) == IF PyInt(frame.vals["age"]) <= 25 THEN "young" ELSE "rest"

ModelsLoaded == model_young.t # "none" /\ model_rest.t # "none"

Result(err, value) == [err |-> err, value |-> value]
NoResult == Result("none", 0)

Call(res, frame, band, scaled, model, val) ==
    [result |-> res, df |-> frame, band |-> band, scaled |-> scaled,
     invoked |-> model, raw |-> val]

\* Lines 218-220, on the score the model returned.
Finish(pre, band, val) ==
    Call(Result("", PostProcess(val)), pre.df, pre.band, pre.scaled, band, val)

\* Lines 213-216: the model of the band predicts on the frame.
Invoke(pre, band) ==
    Finish(pre, band,
           ModelPredict(IF band = "young" THEN model_young ELSE model_rest, pre.df))

\* Lines 212-220, given what preprocess_input returned or raised.
Dispatch(pre) ==
    IF pre.err # ""
    THEN Call(Result(pre.err, 0), pre.df, pre.band, pre.scaled, "none", 0)
    ELSE Invoke(pre, ModelBand(pre.df))

\* Dispatch for a predict that tests the models after preprocess_input.
DispatchChecked(pre) ==
    IF pre.err = "" /\ ~ModelsLoaded
    THEN Call(Result("ModelsUnavailable", 0), pre.df, pre.band, pre.scaled,
              "none", 0)
    ELSE Dispatch(pre)

\* predict with the models checked after preprocess_input instead of before.
predictCheckLate(input_dict) == DispatchChecked(preprocess_input(input_dict))

\* predict: the result, with what the call did on the way.
predict(input_dict) ==
    IF ~ModelsLoaded
    THEN Call(Result("ModelsUnavailable", 0), NoFrame, "none", {}, "none", 0)
    ELSE Dispatch(preprocess_input(input_dict))

(***************************************************************************)
(* Artifact loading (the module body of helper.py, lines 17-34).           *)
(***************************************************************************)
Absent == [state |-> "absent", obj |-> None]
Corrupt == [state |-> "corrupt", obj |-> None]
Stored(obj) == [state |-> "ok", obj |-> obj]

\* _load_artifact: ok is FALSE when it raises (the file is absent, or joblib
\* cannot deserialize it).
_load_artifact(name) ==
    IF files[name].state = "ok"
    THEN [ok |-> TRUE, obj |-> files[name].obj]
    ELSE [ok |-> FALSE, obj |-> None]

\* LoadModels with a try around each model.
LoadModelsEach ==
    LET y == _load_artifact("model_young.joblib")
        r == _load_artifact("model_rest.joblib")
    IN  [young |-> IF y.ok THEN y.obj ELSE None,
         rest |-> IF r.ok THEN r.obj ELSE None]

\* Lines 17-23: both models, under one try.
LoadModels ==
    LET y == _load_artifact("model_young.joblib")
        r == _load_artifact("model_rest.joblib")
    IN  IF y.ok /\ r.ok
        THEN [young |-> y.obj, rest |-> r.obj]
        ELSE [young |-> None, rest |-> None]

\* Lines 26-34: each scaler under a try of its own.
LoadScaler(name) ==
    LET a == _load_artifact(name) IN IF a.ok THEN a.obj ELSE None

Unset == [t |-> "unset", keys |-> FALSE, cols |-> <<>>, tf |-> NoTransform, bias |-> 0]
NoFirst == [set |-> FALSE, input |-> <<>>, result |-> NoResult, between |-> FALSE]

Load ==
    /\ pc = "start"
    /\ pc' = "loaded"
    /\ model_young' = LoadModels.young
    /\ model_rest' = LoadModels.rest
    /\ scaler_young' = LoadScaler("scaler_young.joblib")
    /\ scaler_rest' = LoadScaler("scaler_rest.joblib")
    /\ op' = "load"
    /\ UNCHANGED <<files, input, df, invoked, raw, scalerBand, scaledCols, result,
                   first>>

(***************************************************************************)
(* Calls.                                                                  *)
(***************************************************************************)
\* predict(input_dict), as the Predict button of app.py calls it.
Returns(input_dict, c) ==
    /\ op' = "predict"
    /\ input' = input_dict
    /\ df' = c.df
    /\ invoked' = c.invoked
    /\ raw' = c.raw
    /\ scalerBand' = c.band
    /\ scaledCols' = c.scaled
    /\ result' = c.result
    /\ first' = IF first.set
                THEN [first EXCEPT !.between = @ \/ input_dict # first.input]
                ELSE [set |-> TRUE, input |-> input_dict,
                      result |-> c.result, between |-> FALSE]

Predict(input_dict) ==
    /\ pc = "loaded"
    /\ Returns(input_dict, predict(input_dict))
    /\ UNCHANGED <<pc, files, model_young, model_rest, scaler_young, scaler_rest>>

\* preprocess_input(input), called on its own.
Preprocessed(p) ==
    /\ op' = "preprocess"
    /\ df' = p.df
    /\ scalerBand' = p.band
    /\ scaledCols' = p.scaled
    /\ result' = Result(p.err, 0)

Preprocess ==
    /\ pc = "loaded"
    /\ op = "none"
    /\ Preprocessed(preprocess_input(input))
    /\ UNCHANGED <<pc, files, model_young, model_rest, scaler_young, scaler_rest,
                   input, invoked, raw, first>>

\* calculate_normalized_risk(input), called on its own.
CalcRisk ==
    /\ pc = "loaded"
    /\ op = "none"
    /\ op' = "risk"
    /\ result' = Result("", calculate_normalized_risk(input))
    /\ UNCHANGED <<pc, files, model_young, model_rest, scaler_young, scaler_rest,
                   input, df, invoked, raw, scalerBand, scaledCols, first>>

(***************************************************************************)
(* The inputs and artifact directories checked.                            *)
(***************************************************************************)
\* The sample of helper.py's self-test, with the given age and dependants.
Sample(age, dependants) ==
    [dict |-> TRUE,
     f |-> [k \in Keys |->
        CASE k = "Age" -> age
          [] k = "Number of Dependants" -> dependants
          [] k = "Income in Lakhs" -> Num(12)
          [] k = "Genetical Risk" -> Num(1)
          [] k = "Insurance Plan" -> Str(<<"Silver">>)
          [] k = "Employment Status" -> Str(<<"Salaried">>)
          [] k = "Gender" -> Str(<<"Male">>)
          [] k = "Marital Status" -> Str(<<"Unmarried">>)
          [] k = "BMI Category" -> Str(<<"Normal">>)
          [] k = "Smoking Status" -> Str(<<"No Smoking">>)
          [] k = "Region" -> Str(<<"Northwest">>)
          [] k = "Medical History" -> Str(<<"No Disease">>)]]

NotADict == [dict |-> FALSE, f |-> [k \in Keys |-> Missing]]

Ages == (25 - AgeSpan + 1)..(25 + AgeSpan)

Records ==
    {Sample(Num(a), Num(0)) : a \in Ages}
        \cup { Sample(Str(<<"abc">>), Num(0)), NotADict,
               [Sample(Num(25), Num(0)) EXCEPT !.f["Gender"] = PyNone] }

\* Fitted transforms: a min-max scaler over the form's age range, and a
\* standard scaler.
MinMax == [sub |-> AgeMin, div |-> AgeMax - AgeMin]
Standard == [sub |-> 30, div |-> 4]

YoungModel == Model(-41)
RestModel == Model(-35)

ScalerFiles ==
    { Absent, Corrupt,
      Stored(BareScaler(MinMax)),
      Stored(ScalerDict(TRUE, <<"age", "income_lakhs">>, Standard)),
      Stored(ScalerDict(TRUE, <<"income_lakhs">>, MinMax)),
      Stored(ScalerDict(TRUE, <<"income_lakhs", "bmi">>, MinMax)),
      Stored(ScalerDict(FALSE, <<>>, NoTransform)) }

Directory(my, mr, sy, sr) ==
    [n \in {"model_young.joblib", "model_rest.joblib",
            "scaler_young.joblib", "scaler_rest.joblib"} |->
        CASE n = "model_young.joblib" -> my
          [] n = "model_rest.joblib" -> mr
          [] n = "scaler_young.joblib" -> sy
          [] n = "scaler_rest.joblib" -> sr]

Directories ==
    {Directory(my, mr, sy, sr) :
        my \in {Absent, Corrupt, Stored(YoungModel)},
        mr \in {Absent, Corrupt, Stored(RestModel)},
        sy \in ScalerFiles, sr \in ScalerFiles}

Init ==
    /\ pc = "start"
    /\ files \in Directories
    /\ model_young = Unset
    /\ model_rest = Unset
    /\ scaler_young = Unset
    /\ scaler_rest = Unset
    /\ op = "none"
    /\ input = <<>>
    /\ df = NoFrame
    /\ invoked = "none"
    /\ raw = 0
    /\ scalerBand = "none"
    /\ scaledCols = {}
    /\ result = NoResult
    /\ first = NoFirst

Next ==
    \/ Load
    \/ \E input_dict \in Records : Predict(input_dict)

Spec == Init /\ [][Next]_vars

(***************************************************************************)
(* calculate_normalized_risk on its own: every history of up to MaxLen     *)
(* atoms, and two values that are no strings.                              *)
(***************************************************************************)
HistAtoms == {"Diabetes", "thyroid", "Heart disease", " ", "&", ","}

Histories ==
    {Str(s) : s \in UNION {[1..n -> HistAtoms] : n \in 0..MaxLen}}
        \cup {PyNone, Num(0)}

\* The state after the module body ran on the given directory.
Loaded(dir, arg) ==
    /\ pc = "loaded"
    /\ files = dir
    /\ model_young = None
    /\ model_rest = None
    /\ scaler_young = (IF dir["scaler_young.joblib"].state = "ok"
                       THEN dir["scaler_young.joblib"].obj ELSE None)
    /\ scaler_rest = (IF dir["scaler_rest.joblib"].state = "ok"
                      THEN dir["scaler_rest.joblib"].obj ELSE None)
    /\ op = "none"
    /\ input = arg
    /\ df = NoFrame
    /\ invoked = "none"
    /\ raw = 0
    /\ scalerBand = "none"
    /\ scaledCols = {}
    /\ result = NoResult
    /\ first = NoFirst

InitRisk ==
    \E h \in Histories : Loaded(Directory(Absent, Absent, Absent, Absent), h)

NextRisk == CalcRisk

SpecRisk == InitRisk /\ [][NextRisk]_vars

(***************************************************************************)
(* preprocess_input on its own: every combination of the category values   *)
(* below, at the two ages next to the band boundary.                       *)
(***************************************************************************)
Genders ==
    { Str(<<"Male">>), Str(<<"male">>), Str(<<"MALE">>), Str(<<" ", "Male">>),
      Str(<<"Female">>), Str(<<"Other">>), Missing }
Regions ==
    { Str(<<"Northwest">>), Str(<<" ", "Northwest", " ">>), Str(<<"Southeast">>),
      Str(<<"Southwest">>), Str(<<"Northeast">>), Str(<<"northwest">>), PyNone }
Maritals == { Str(<<"Unmarried">>), Str(<<"Married">>), Str(<<"Unmarried", " ">>) }
BMIs ==
    { Str(<<"Normal">>), Str(<<"Obesity">>), Str(<<"Overweight">>),
      Str(<<"Underweight">>) }
Smokings == { Str(<<"No Smoking">>), Str(<<"Occasional">>), Str(<<"Regular">>) }
Employments ==
    { Str(<<"Salaried">>), Str(<<"Self-Employed">>), Str(<<"Freelancer">>),
      Str(<<>>), Missing }

Applicant(age, gender, region, marital, bmi, smoking, employment) ==
    [dict |-> TRUE,
     f |-> [k \in Keys |->
        CASE k = "Age" -> Num(age)
          [] k = "Gender" -> gender
          [] k = "Region" -> region
          [] k = "Marital Status" -> marital
          [] k = "BMI Category" -> bmi
          [] k = "Smoking Status" -> smoking
          [] k = "Employment Status" -> employment
          [] OTHER -> Sample(Num(age), Num(0)).f[k]]]

Applicants ==
    {Applicant(a, g, r, m, b, s, e) :
        a \in {25, 26}, g \in Genders, r \in Regions, m \in Maritals,
        b \in BMIs, s \in Smokings, e \in Employments}

EncDirectories ==
    { Directory(Absent, Absent, Absent, Stored(BareScaler(MinMax))),
      Directory(Absent, Absent,
                Stored(ScalerDict(TRUE, <<"age", "income_lakhs">>, Standard)),
                Absent) }

InitEnc == \E d \in EncDirectories, a \in Applicants : Loaded(d, a)

NextEnc == Preprocess

SpecEnc == InitEnc /\ [][NextEnc]_vars

(***************************************************************************)
(* The claims.                                                             *)
(***************************************************************************)
Returned == op = "predict" /\ result.err = ""

\* The applicant's age band, from the Age the caller passed.
InputBand == IF Get(input, "Age", Num(0)).n <= 25 THEN "young" ELSE "rest"

\* C1: a predict call that returns invoked exactly one model, the young one if
\* and only if the input Age is <= 25, and the band that selected the scaler is
\* the band that selected the model.
C1_ModelBandIsInputBand ==
    Returned =>
        /\ invoked \in {"young", "rest"}
        /\ invoked = InputBand
        /\ invoked = scalerBand

\* C2: whenever predict returns, whatever the raw score of the model, the value
\* returned is an integer >= 0.
C2_ReturnsNonNegative == Returned => result.value \in Nat

\* C2 witness: a negative raw score came back as 0.
C2_NegativeScoreClipped == Returned /\ raw < 0 /\ result.value = 0

\* The raw score lies halfway between two integers.
IsTie(val) == 2 * (val % ScoreDen) = ScoreDen

\* n is val rounded to the nearest integer, a tie to the even neighbour.
NearestEven(n, val) ==
    LET d == n * ScoreDen - val
    IN  /\ 2 * d <= ScoreDen
        /\ 2 * d >= -ScoreDen
        /\ IsTie(val) => n % 2 = 0

\* C9 as stated: predict returns max(0, r(v)), r rounding to the nearest integer
\* with a tie rounded up (0.5 gives 1, 2.5 gives 3).
C9_RoundsHalfUp ==
    Returned => result.value = Max(0, (2 * raw + ScoreDen) \div (2 * ScoreDen))

\* C9 as amended: predict returns max(0, r(v)), r rounding to the nearest
\* integer with a tie rounded to the even neighbour (0.5 gives 0, 2.5 gives 2).
C9_RoundsHalfEven ==
    Returned =>
        \E n \in ((raw \div ScoreDen) - 1)..((raw \div ScoreDen) + 1) :
            NearestEven(n, raw) /\ result.value = Max(0, n)

\* C9 witness: a positive tie above 1 was rounded down to the even neighbour.
C9_TieRoundedDown ==
    Returned /\ IsTie(raw) /\ raw > ScoreDen /\ result.value * ScoreDen < raw

ModelFileFailed ==
    \/ files["model_young.joblib"].state # "ok"
    \/ files["model_rest.joblib"].state # "ok"

\* C3: if either model failed to load, loading raises nothing, and every
\* predict call fails with the models-unavailable error before any encoding,
\* scaling or model invocation, whatever the input.
C3_UnavailableBeforeAnythingElse ==
    ModelFileFailed =>
        /\ pc = "start" => ENABLED Load
        /\ op = "predict" =>
              /\ result = Result("ModelsUnavailable", 0)
              /\ df = NoFrame
              /\ scalerBand = "none"
              /\ scaledCols = {}
              /\ invoked = "none"

\* C3 witness: one model file is present, the other cannot be deserialized, and
\* a call whose Age cannot be coerced failed with the models-unavailable error.
C3_PreemptsCoercionError ==
    /\ files["model_young.joblib"].state = "ok"
    /\ files["model_rest.joblib"].state = "corrupt"
    /\ op = "predict"
    /\ EncodeError(input) = "InvalidInput"
    /\ result.err = "ModelsUnavailable"

LoadedFrom(name) == IF files[name].state = "ok" THEN files[name].obj ELSE None

\* C10: after loading, the two models are both loaded or both None (both None
\* exactly when either file failed), and each scaler is what its own file
\* holds, or None when that file is absent or cannot be deserialized.
C10_ModelsTogetherScalersApart ==
    pc = "loaded" =>
        /\ (model_young = None) <=> (model_rest = None)
        /\ (model_young = None) <=> ModelFileFailed
        /\ ~ModelFileFailed =>
              /\ model_young = files["model_young.joblib"].obj
              /\ model_rest = files["model_rest.joblib"].obj
        /\ scaler_young = LoadedFrom("scaler_young.joblib")
        /\ scaler_rest = LoadedFrom("scaler_rest.joblib")

\* C10 witness: the young model's file is good and the rest model's is not, so
\* both models are None; one scaler is missing and the other is loaded.
C10_OneModelFileDiscardsBoth ==
    /\ pc = "loaded"
    /\ files["model_young.joblib"].state = "ok"
    /\ files["model_rest.joblib"].state = "corrupt"
    /\ model_young = None
    /\ files["scaler_young.joblib"].state = "absent"
    /\ scaler_young = None
    /\ scaler_rest # None

\* The last predict call got as far as selecting a scaler.
ReachedScaling == op = "predict" /\ ModelsLoaded /\ EncodeError(input) = ""

InputScaler == IF InputBand = "young" THEN scaler_young ELSE scaler_rest
OtherScaler == IF InputBand = "young" THEN scaler_rest ELSE scaler_young

NamesAbsentColumn(sc) ==
    /\ sc.t = "dict"
    /\ sc.keys
    /\ \E i \in 1..Len(sc.cols) : sc.cols[i] \notin Range(_EXPECTED_COLUMNS)

\* C4: when the bundle of the applicant's band names a column outside the
\* schema, the call fails with the schema-mismatch error, nothing is
\* transformed and no model is invoked; a bundle of the other band that names
\* such a column causes no schema-mismatch failure.
C4_SchemaMismatchOwnBandOnly ==
    ReachedScaling =>
        /\ NamesAbsentColumn(InputScaler) =>
              /\ result = Result("SchemaMismatch", 0)
              /\ scaledCols = {}
              /\ df = NoFrame
              /\ invoked = "none"
        /\ ~NamesAbsentColumn(InputScaler) => result.err # "SchemaMismatch"

\* C4 witness: the own band's bundle names an absent column and the call failed.
C4_OwnBundleNamesAbsentColumn ==
    /\ ReachedScaling
    /\ NamesAbsentColumn(InputScaler)
    /\ ~NamesAbsentColumn(OtherScaler)
    /\ result.err = "SchemaMismatch"

NamedCols(sc) ==
    IF sc.t = "dict" THEN Range(sc.cols) ELSE {"age", "income_lakhs"}

\* C8: with no scaler for the applicant's band the call builds the unscaled
\* frame, whatever the other band holds; with one, every column it does not
\* name keeps its encoded value (a bare transform names age and income_lakhs);
\* the frame has the 18 columns in the same order either way.
C8_ScalingTouchesNamedColumnsOnly ==
    ReachedScaling =>
        /\ InputScaler.t = "none" =>
              /\ result.err = ""
              /\ scaledCols = {}
              /\ df = Frame(_EXPECTED_COLUMNS, Encode(input))
        /\ (InputScaler.t # "none" /\ result.err = "") =>
              /\ df.cols = _EXPECTED_COLUMNS
              /\ DOMAIN df.vals = Range(_EXPECTED_COLUMNS)
              /\ scaledCols = NamedCols(InputScaler)
              /\ \A c \in Range(_EXPECTED_COLUMNS) \ NamedCols(InputScaler) :
                    df.vals[c] = Encode(input)[c]

\* C8 witness: a bare transform changed age and income_lakhs.
C8_BareTransformApplied ==
    /\ ReachedScaling
    /\ InputScaler.t = "scaler"
    /\ result.err = ""
    /\ df.vals["age"] # Encode(input)["age"]
    /\ df.vals["income_lakhs"] # Encode(input)["income_lakhs"]
    /\ df.vals["insurance_plan"] = ToFloat(2)

\* C6: after any sequence of predict calls the four artifacts are what loading
\* made of the files, and a call with the input of the first call has the
\* outcome of the first call, whatever was called in between.
C6_ArtifactsFixedCallsRepeatable ==
    pc = "loaded" =>
        /\ model_young = (IF ModelFileFailed THEN None
                          ELSE files["model_young.joblib"].obj)
        /\ model_rest = (IF ModelFileFailed THEN None
                         ELSE files["model_rest.joblib"].obj)
        /\ scaler_young = LoadedFrom("scaler_young.joblib")
        /\ scaler_rest = LoadedFrom("scaler_rest.joblib")
        /\ (op = "predict" /\ input = first.input) => result = first.result

\* C6 witness: the first input was predicted again after a call with another
\* input, and the value returned is the same.
C6_RepeatedAfterOtherCall ==
    /\ Returned
    /\ first.between
    /\ input = first.input
    /\ result = first.result

(***************************************************************************)
(* Claims on preprocess_input's encoding (SpecEnc).                        *)
(***************************************************************************)
\* The one-hot flags: <<column, input key, category>>.
OneHot ==
    { <<"gender_Male", "Gender", "Male">>,
      <<"region_Northwest", "Region", "Northwest">>,
      <<"region_Southeast", "Region", "Southeast">>,
      <<"region_Southwest", "Region", "Southwest">>,
      <<"marital_status_Unmarried", "Marital Status", "Unmarried">>,
      <<"bmi_category_Obesity", "BMI Category", "Obesity">>,
      <<"bmi_category_Overweight", "BMI Category", "Overweight">>,
      <<"bmi_category_Underweight", "BMI Category", "Underweight">>,
      <<"smoking_status_Occasional", "Smoking Status", "Occasional">>,
      <<"smoking_status_Regular", "Smoking Status", "Regular">>,
      <<"employment_status_Salaried", "Employment Status", "Salaried">>,
      <<"employment_status_Self-Employed", "Employment Status", "Self-Employed">> }

Encoded == op = "preprocess" /\ result.err = ""

FlagSet(t) == df.vals[t[1]] = ToFloat(1)

AtMostOnePerGroup ==
    \A t \in OneHot, u \in OneHot :
        (t[2] = u[2] /\ FlagSet(t) /\ FlagSet(u)) => t = u

Compared(key) ==
    LET v == input.f[key]
        text == CASE v.t = "missing" -> <<>>
                  [] v.t = "str" -> v.s
                  [] v.t = "none" -> <<"None">>
                  [] OTHER -> <<"0">>
    IN  IF key = "Gender" THEN [i \in 1..Len(text) |-> LowerAtom(text[i])]
        ELSE strip(text)

Wanted(t) == IF t[2] = "Gender" THEN <<"male">> ELSE <<t[3]>>

RECURSIVE SplitOnEither(_)
SplitOnEither(s) ==
    LET hits == {i \in 1..Len(s) : MatchAt(s, i, Separator) \/ s[i] = ","}
    IN  IF hits = {} THEN <<s>>
        ELSE LET i == CHOOSE j \in hits : \A k \in hits : j <= k
                 n == IF s[i] = "," THEN 1 ELSE Len(Separator)
             IN  <<SubSeq(s, 1, i - 1)>> \o SplitOnEither(SubSeq(s, i + n, Len(s)))

\* The sum of the severity scores of the tokens, trimmed and lowercased.
SeveritySum(v) ==
    IF v.t # "str" THEN 0
    ELSE LET pieces == SplitOnEither(v.s)
         IN  SumScores([i \in 1..Len(pieces) |-> lower(strip(pieces[i]))])

\* C5: calculate_normalized_risk returns min(S, 14)/14, S the sum of the
\* severity scores of the tokens of the history split on " & " or ","; so the
\* result is in [0, 1], 0 for an empty or non-string history, and 1 when S
\* exceeds 14.
C5_RiskIsCappedSeveritySum ==
    op = "risk" =>
        /\ result.value * 14 = Min(SeveritySum(input), 14) * ToFloat(1)
        /\ result.value >= 0
        /\ result.value <= ToFloat(1)
        /\ (input.t # "str" \/ input.s = <<>>) => result.value = 0
        /\ SeveritySum(input) > 14 => result.value = ToFloat(1)

====
